---- MODULE Spec2Model ----
(***************************************************************************)
(* Acorn-Accounting, accounts/views.py: the entry submission views         *)
(* (add_journal_entry, add_bank_entry, add_transfer_entry) and the         *)
(* balance views (show_account_detail, bank_register) over the persisted   *)
(* Entry and Transaction rows.                                             *)
(*                                                                         *)
(* accounts/forms.py, accounts/models.py and accounts/accounting.py are    *)
(* imported by views.py (lines 9-12); what the views need of them (form    *)
(* cleaning and validation, cascading deletes, get_date,                   *)
(* get_initial_account_balance, flip_balance) is modelled from the         *)
(* specification and marked so in MODEL_MAP.json.                          *)
(***************************************************************************)
EXTENDS Integers, Sequences, FiniteSets, TLC

\* ------------------------------------------------------------------ bounds
MaxDate == 2            \* entry dates are 1..MaxDate
MaxAmount == 1          \* a line's magnitude is 1..MaxAmount
MaxEntries == 2         \* Entry rows ever inserted
MaxTid == 4             \* Transaction rows ever inserted
MaxForms == 2           \* forms of one submitted formset

\* NULL of a foreign key, a missing primary key, a missing form value
None == 0

Dates == 1..MaxDate
Amounts == 1..MaxAmount
Deltas == {d \in -MaxAmount..MaxAmount : d # 0}

\* The chart of accounts: one bank account, one credit-normal account.
Accounts == {"Checking", "Income"}

\* Account.bank
bank(account) == account = "Checking"

\* Account.flip_balance()
flip_balance(account) == account = "Income"

\* The journal_type keys of entry_types
EntryTypes == {"GJ", "CR", "CD"}

VARIABLES
    db,         \* the persisted rows and the primary key sequences
    pending,    \* the database writes a request has still to issue
    response    \* what the last request answered

vars == <<db, pending, response>>

\* ------------------------------------------------------------- sequences
RECURSIVE SumDelta(_)
SumDelta(S) ==
    IF S = {} THEN 0
    ELSE LET t == CHOOSE x \in S : TRUE
         IN t.balance_delta + SumDelta(S \ {t})

\* The elements of a set of rows as a sequence in primary key order.
RECURSIVE ById(_)
ById(S) ==
    IF S = {} THEN <<>>
    ELSE LET t == CHOOSE x \in S : \A y \in S : x.id <= y.id
         IN <<t>> \o ById(S \ {t})

\* ------------------------------------------------------------ the tables
\* A Transaction row
Transaction(id, account, balance_delta, journal_entry, bankspend_entry, bankreceive_entry) ==
    [id |-> id, account |-> account, balance_delta |-> balance_delta,
     journal_entry |-> journal_entry, bankspend_entry |-> bankspend_entry,
     bankreceive_entry |-> bankreceive_entry]

\* A JournalEntry, BankReceivingEntry or BankSpendingEntry row
Entry(kind, id, date, main_transaction) ==
    [kind |-> kind, id |-> id, date |-> date, main_transaction |-> main_transaction]

\* entry_type.objects.get(id=journal_id): the rows it finds (one or none)
GetEntry(d, kind, id) == {e \in d.entries : e.kind = kind /\ e.id = id}

\* The foreign key of a Transaction to an entry of the kind
EntryKey(t, kind) ==
    CASE kind = "GJ" -> t.journal_entry
      [] kind = "CD" -> t.bankspend_entry
      [] kind = "CR" -> t.bankreceive_entry

\* entry.transaction_set.all()
transaction_set(d, e) == {t \in d.transactions : EntryKey(t, e.kind) = e.id}

\* entry.main_transaction: the rows it finds (one or none)
main_transaction(d, e) == {t \in d.transactions : t.id = e.main_transaction}

\* --------------------------------------------------------------- writes
\* Model.save() of an entry: INSERT without a primary key, else UPDATE
SaveEntry(d, e) ==
    IF GetEntry(d, e.kind, e.id) = {}
    THEN [d EXCEPT !.entries = @ \cup {e},
                   !.next_entry_id[e.kind] = e.id + 1]
    ELSE [d EXCEPT !.entries = (@ \ GetEntry(d, e.kind, e.id)) \cup {e}]

\* Model.save() of a Transaction
SaveTransaction(d, t) ==
    IF \E x \in d.transactions : x.id = t.id
    THEN [d EXCEPT !.transactions = {x \in @ : x.id # t.id} \cup {t}]
    ELSE [d EXCEPT !.transactions = @ \cup {t},
                   !.next_transaction_id = t.id + 1]

\* entry.delete(): the entry and, by cascade, its transaction_set
DeleteEntry(d, kind, id) ==
    [d EXCEPT !.entries = {e \in @ : ~(e.kind = kind /\ e.id = id)},
              !.transactions = {t \in @ : EntryKey(t, kind) # id}]

\* transaction.delete(): the row and, by cascade, the bank entry whose
\* main_transaction it is, with that entry's transaction_set
DeleteTransaction(d, id) ==
    LET owners == {e \in d.entries : e.main_transaction = id}
    IN [d EXCEPT !.entries = @ \ owners,
                 !.transactions =
                     {t \in @ : /\ t.id # id
                                /\ \A e \in owners : EntryKey(t, e.kind) # e.id}]

\* One database write
Apply(d, w) ==
    CASE w.op = "save_entry" -> SaveEntry(d, w.row)
      [] w.op = "save_transaction" -> SaveTransaction(d, w.row)
      [] w.op = "delete_entry" -> DeleteEntry(d, w.row.kind, w.row.id)
      [] w.op = "delete_transaction" -> DeleteTransaction(d, w.row.id)

\* The writes of a request, in the order the view issues them
RECURSIVE ApplyAll(_, _)
ApplyAll(d, ws) == IF ws = <<>> THEN d ELSE ApplyAll(Apply(d, Head(ws)), Tail(ws))

Write(op, row) == [op |-> op, row |-> row]

\* ---------------------------------------------------------------- forms
\* One submitted form of a formset. id is the primary key of the row an
\* initial form edits (None on an extra form); balance_delta is
\* cleaned_data['balance_delta']: signed (credit - debit) on a journal
\* line, the entered magnitude on a bank line.
Form(id, account, balance_delta, delete) ==
    [id |-> id, account |-> account, balance_delta |-> balance_delta, DELETE |-> delete]

\* An extra form left blank
EmptyForm == Form(None, "", 0, FALSE)

\* The row an initial form edits
Instance(d, form) == CHOOSE t \in d.transactions : t.id = form.id

\* form.has_changed(): the submitted data differ from the form's initial
\* data; initial of the amount is abs(balance_delta) on a bank line
has_changed(d, form, kind) ==
    IF form.id = None THEN form # EmptyForm
    ELSE LET t == Instance(d, form)
             initial == IF kind = "GJ" THEN t.balance_delta
                        ELSE IF t.balance_delta < 0 THEN -t.balance_delta
                        ELSE t.balance_delta
         IN form.account # t.account \/ form.balance_delta # initial

\* transaction_formset.deleted_forms
deleted_forms(forms) == {i \in 1..Len(forms) : forms[i].id # None /\ forms[i].DELETE}

\* The lines that survive the submission: neither blank nor deleted
Surviving(forms) ==
    {i \in 1..Len(forms) : forms[i] # EmptyForm /\ ~forms[i].DELETE}

RECURSIVE SumForms(_, _)
SumForms(forms, I) ==
    IF I = {} THEN 0
    ELSE LET i == CHOOSE x \in I : TRUE
         IN forms[i].balance_delta + SumForms(forms, I \ {i})

\* JournalEntryForm.is_valid()
JournalEntryForm_is_valid(POST) == POST.date \in Dates

\* BankSpendingForm / BankReceivingForm .is_valid(): the account is a bank
\* account and the entered amount is a non-negative magnitude
BankForm_is_valid(POST) ==
    POST.date \in Dates /\ bank(POST.account) /\ POST.amount >= 0

\* cleaned_data['amount'] of the entry form: the form derives the sign of
\* the entered magnitude from the variant, so that the main transaction
\* offsets the detail lines (a receipt debits the bank account)
BankForm_cleaned_amount(journal_type, POST) ==
    IF journal_type = "CR" THEN -1 * POST.amount ELSE POST.amount

\* TransactionFormSet.is_valid(): the surviving lines balance, and there
\* are at least two of them
TransactionFormSet_is_valid(POST) ==
    /\ Cardinality(Surviving(POST.forms)) >= 2
    /\ SumForms(POST.forms, Surviving(POST.forms)) = 0

\* Bank...TransactionFormSet.is_valid(): at least one surviving detail
\* line, and the entered amount is the sum of their magnitudes
BankTransactionFormSet_is_valid(POST) ==
    /\ Cardinality(Surviving(POST.forms)) >= 1
    /\ \A i \in Surviving(POST.forms) : POST.forms[i].balance_delta > 0
    /\ SumForms(POST.forms, Surviving(POST.forms)) = POST.amount

\* transaction_formset.save(commit=False): the rows of the deleted forms
\* are deleted; new and changed instances are built, not saved
RECURSIVE formset_save_commit_False(_)
formset_save_commit_False(forms) ==
    IF forms = <<>> THEN <<>>
    ELSE (IF Head(forms).id # None /\ Head(forms).DELETE
          THEN <<Write("delete_transaction", [id |-> Head(forms).id])>>
          ELSE <<>>) \o formset_save_commit_False(Tail(forms))

\* form.instance after the formset built it: the edited row, or a new row
\* whose foreign key the inline formset set to its entry
form_instance(d, form, kind, entry_id, pk) ==
    IF form.id # None
    THEN [Instance(d, form) EXCEPT !.account = form.account]
    ELSE Transaction(pk, form.account, 0,
                     IF kind = "GJ" THEN entry_id ELSE None,
                     IF kind = "CD" THEN entry_id ELSE None,
                     IF kind = "CR" THEN entry_id ELSE None)

\* ---------------------------------------------------- add_journal_entry
\* `transaction_formset.instance is TransactionFormSet` and the two elifs:
\* instance is the entry, never a formset class
instance_is_formset_class == FALSE

\* The body of the loop over transaction_formset.forms (lines 139-146)
JournalLoopBody(d, form, entry_id, pk) ==
    LET inst == form_instance(d, form, "GJ", entry_id, pk)
        owned == IF instance_is_formset_class
                 THEN [inst EXCEPT !.journal_entry = entry_id]
                 ELSE inst
    IN Write("save_transaction", [owned EXCEPT !.balance_delta = form.balance_delta])

\* The loop over transaction_formset.forms (lines 137-146)
RECURSIVE JournalLoop(_, _, _, _, _)
JournalLoop(d, forms, i, entry_id, pk) ==
    IF i > Len(forms) THEN <<>>
    ELSE IF has_changed(d, forms[i], "GJ") /\ i \notin deleted_forms(forms)
         THEN <<JournalLoopBody(d, forms[i], entry_id, pk)>>
              \o JournalLoop(d, forms, i + 1, entry_id,
                             IF forms[i].id = None THEN pk + 1 ELSE pk)
         ELSE JournalLoop(d, forms, i + 1, entry_id, pk)

\* entry_form.save() in the place of entry_form.save(commit=False)
JournalEntryForm_save(entry) == <<Write("save_entry", entry)>>

\* entry_form.save(commit=False) (line 132): the instance takes the form's
\* data and no row is written
JournalEntryForm_save_commit_False(entry) == <<>>

\* The answer of a view: the status and the writes it issues, in order
Answer(status, writes) == [status |-> status, writes |-> writes]

\* add_journal_entry on a POST
add_journal_entry(d, journal_id, POST) ==
    LET found == GetEntry(d, "GJ", journal_id)
        pk == IF found # {} THEN journal_id ELSE None
        entry == Entry("GJ", IF pk # None THEN pk ELSE d.next_entry_id["GJ"],
                       POST.date, None)
    IN IF POST.submit = "Submit"
       THEN IF JournalEntryForm_is_valid(POST)
            THEN IF TransactionFormSet_is_valid(POST)
                 THEN Answer("redirect",
                             JournalEntryForm_save_commit_False(entry)
                             \o <<Write("save_entry", entry)>>
                             \o formset_save_commit_False(POST.forms)
                             \o JournalLoop(d, POST.forms, 1, entry.id,
                                            d.next_transaction_id))
                 ELSE Answer("render", JournalEntryForm_save_commit_False(entry))
            ELSE Answer("render", <<>>)
       ELSE IF POST.submit = "Delete"
            THEN IF pk # None
                 THEN Answer("redirect", <<Write("delete_entry", entry)>>)
                 ELSE Answer("404", <<>>)
            ELSE Answer("404", <<>>)

\* ------------------------------------------------------- add_bank_entry
\* BankLoopBody with the wrong reference set on a spending line
BankLoopBody_WrongKey(d, form, journal_type, entry_id, pk) ==
    LET inst == form_instance(d, form, journal_type, entry_id, pk)
    IN Write("save_transaction",
             IF journal_type = "CD"
             THEN [inst EXCEPT !.bankreceive_entry = entry_id,
                               !.balance_delta = -1 * form.balance_delta]
             ELSE [inst EXCEPT !.bankreceive_entry = entry_id,
                               !.balance_delta = form.balance_delta])

\* BankLoopBody without the -1 of line 210
BankLoopBody_NoNegation(d, form, journal_type, entry_id, pk) ==
    LET inst == form_instance(d, form, journal_type, entry_id, pk)
    IN Write("save_transaction",
             IF journal_type = "CD"
             THEN [inst EXCEPT !.bankspend_entry = entry_id,
                               !.balance_delta = form.balance_delta]
             ELSE [inst EXCEPT !.bankreceive_entry = entry_id,
                               !.balance_delta = form.balance_delta])

\* The body of the loop over transaction_formset.forms (lines 208-214)
BankLoopBody(d, form, journal_type, entry_id, pk) ==
    LET inst == form_instance(d, form, journal_type, entry_id, pk)
    IN Write("save_transaction",
             IF journal_type = "CD"
             THEN [inst EXCEPT !.bankspend_entry = entry_id,
                               !.balance_delta = -1 * form.balance_delta]
             ELSE [inst EXCEPT !.bankreceive_entry = entry_id,
                               !.balance_delta = form.balance_delta])

\* The loop over transaction_formset.forms (lines 206-214)
RECURSIVE BankLoop(_, _, _, _, _, _)
BankLoop(d, forms, i, journal_type, entry_id, pk) ==
    IF i > Len(forms) THEN <<>>
    ELSE IF has_changed(d, forms[i], journal_type) /\ i \notin deleted_forms(forms)
         THEN <<BankLoopBody(d, forms[i], journal_type, entry_id, pk)>>
              \o BankLoop(d, forms, i + 1, journal_type, entry_id,
                          IF forms[i].id = None THEN pk + 1 ELSE pk)
         ELSE BankLoop(d, forms, i + 1, journal_type, entry_id, pk)

\* SaveMainTransaction with the sign of the amount turned
SaveMainTransaction_Negated(d, mains, account, amount) ==
    IF mains # {}
    THEN LET m == CHOOSE t \in mains : TRUE
         IN [m EXCEPT !.account = account, !.balance_delta = -1 * amount]
    ELSE Transaction(d.next_transaction_id, account, -1 * amount, None, None, None)

\* The try/except around entry.main_transaction (lines 195-203): the
\* main transaction is updated, or created when the entry has none;
\* account and amount are the entry form's cleaned_data
SaveMainTransaction(d, mains, account, amount) ==
    IF mains # {}
    THEN LET m == CHOOSE t \in mains : TRUE
         IN [m EXCEPT !.account = account, !.balance_delta = amount]
    ELSE Transaction(d.next_transaction_id, account, amount, None, None, None)

\* BankDelete without entry.main_transaction.delete()
BankDelete_EntryOnly(entry) ==
    <<Write("delete_entry", entry)>>

\* The Delete branch of add_bank_entry (lines 220-222)
BankDelete(entry) ==
    <<Write("delete_transaction", [id |-> entry.main_transaction]),
      Write("delete_entry", entry)>>

\* add_bank_entry on a POST
add_bank_entry(d, journal_id, journal_type, POST) ==
    LET found == GetEntry(d, journal_type, journal_id)
        pk == IF found # {} THEN journal_id ELSE None
        mains == IF found = {} THEN {}
                 ELSE main_transaction(d, CHOOSE e \in found : TRUE)
        main == SaveMainTransaction(d, mains, POST.account,
                                    BankForm_cleaned_amount(journal_type, POST))
        entry == Entry(journal_type,
                       IF pk # None THEN pk ELSE d.next_entry_id[journal_type],
                       POST.date, main.id)
    IN IF POST.submit = "Submit"
       THEN IF BankForm_is_valid(POST)
            THEN IF BankTransactionFormSet_is_valid(POST)
                 THEN Answer("redirect",
                             <<Write("save_transaction", main),
                               Write("save_entry", entry)>>
                             \o formset_save_commit_False(POST.forms)
                             \o BankLoop(d, POST.forms, 1, journal_type, entry.id,
                                         IF mains # {} THEN d.next_transaction_id
                                         ELSE d.next_transaction_id + 1))
                 ELSE Answer("render", <<>>)
            ELSE Answer("render", <<>>)
       ELSE IF POST.submit = "Delete"
            THEN IF pk # None
                 THEN Answer("redirect", BankDelete(CHOOSE e \in found : TRUE))
                 ELSE Answer("404", <<>>)
            ELSE Answer("404", <<>>)

\* --------------------------------------------------- add_transfer_entry
\* One form of the TransferFormSet
Transfer(source, destination, amount) ==
    [source |-> source, destination |-> destination, amount |-> amount]

EmptyTransfer == Transfer("", "", 0)

\* TransferFormSet.is_valid(): a transfer is entered, and every filled
\* form names two different accounts and a positive amount
TransferFormSet_is_valid(POST) ==
    /\ \E i \in 1..Len(POST.forms) : POST.forms[i] # EmptyTransfer
    /\ \A i \in 1..Len(POST.forms) :
           POST.forms[i] # EmptyTransfer =>
               /\ POST.forms[i].source \in Accounts
               /\ POST.forms[i].destination \in Accounts
               /\ POST.forms[i].source # POST.forms[i].destination
               /\ POST.forms[i].amount > 0

\* TransferLoopBody with the credit booked on the source account
TransferLoopBody_CreditOnSource(form, entry_id, pk) ==
    <<Write("save_transaction",
            Transaction(pk, form.source, -1 * form.amount, entry_id, None, None)),
      Write("save_transaction",
            Transaction(pk + 1, form.source, form.amount, entry_id, None, None))>>

\* The debit and the credit of one form (lines 258-265)
TransferLoopBody(form, entry_id, pk) ==
    <<Write("save_transaction",
            Transaction(pk, form.source, -1 * form.amount, entry_id, None, None)),
      Write("save_transaction",
            Transaction(pk + 1, form.destination, form.amount, entry_id, None, None))>>

\* The loop over transfer_formset.forms (lines 256-265)
RECURSIVE TransferLoop(_, _, _, _)
TransferLoop(forms, i, entry_id, pk) ==
    IF i > Len(forms) THEN <<>>
    ELSE IF forms[i] # EmptyTransfer
         THEN TransferLoopBody(forms[i], entry_id, pk)
              \o TransferLoop(forms, i + 1, entry_id, pk + 2)
         ELSE TransferLoop(forms, i + 1, entry_id, pk)

\* add_transfer_entry on a POST
add_transfer_entry(d, POST) ==
    LET entry == Entry("GJ", d.next_entry_id["GJ"], POST.date, None)
    IN IF JournalEntryForm_is_valid(POST)
       THEN IF TransferFormSet_is_valid(POST)
            THEN Answer("redirect",
                        JournalEntryForm_save_commit_False(entry)
                        \o <<Write("save_entry", entry)>>
                        \o TransferLoop(POST.forms, 1, entry.id, d.next_transaction_id))
            ELSE Answer("render", JournalEntryForm_save_commit_False(entry))
       ELSE Answer("render", <<>>)

\* ---------------------------------------------------- the balance views
\* date__lte=stopdate & date__gte=startdate
InRange(e, startdate, stopdate) == e.date <= stopdate /\ e.date >= startdate

\* The entries a Transaction belongs to: by one of its three foreign keys,
\* or as the main_transaction of a bank entry
OwningEntries(d, t) ==
    {e \in d.entries : EntryKey(t, e.kind) = e.id \/ e.main_transaction = t.id}

\* Transaction.get_date(): the date of the owning entry
get_date(d, t) == (CHOOSE e \in OwningEntries(d, t) : TRUE).date

\* The Q object of show_account_detail (lines 50-55)
detail_query(d, t, startdate, stopdate) ==
    \/ \E e \in d.entries : /\ e.kind = "GJ" /\ e.id = t.journal_entry
                            /\ InRange(e, startdate, stopdate)
    \/ \E e \in d.entries : /\ e.kind = "CD" /\ e.id = t.bankspend_entry
                            /\ InRange(e, startdate, stopdate)
    \/ \E e \in d.entries : /\ e.kind = "CR" /\ e.id = t.bankreceive_entry
                            /\ InRange(e, startdate, stopdate)
    \/ \E e \in d.entries : /\ e.kind = "CD" /\ e.main_transaction = t.id
                            /\ InRange(e, startdate, stopdate)
    \/ \E e \in d.entries : /\ e.kind = "CR" /\ e.main_transaction = t.id
                            /\ InRange(e, startdate, stopdate)

\* account.transaction_set.filter(query) (line 56), as a set of rows
detail_filter(d, account, startdate, stopdate) ==
    {t \in d.transactions :
        t.account = account /\ detail_query(d, t, startdate, stopdate)}

\* The filter of bank_register (lines 82-85), as a set of rows
register_filter(d, account, startdate, stopdate) ==
    {t \in d.transactions :
        /\ t.account = account
        /\ \E e \in d.entries : /\ e.kind \in {"CD", "CR"}
                                /\ e.main_transaction = t.id
                                /\ InRange(e, startdate, stopdate)}

\* The orders in which the database may return the rows of a query that
\* names no order
Orderings(S) ==
    {s \in [1..Cardinality(S) -> S] :
        \A i, j \in 1..Cardinality(S) : i # j => s[i] # s[j]}

\* list.sort(key=lambda x: x.get_date()): stable, by the date alone
RECURSIVE InsertByDate(_, _, _)
InsertByDate(d, sorted, t) ==
    IF sorted = <<>> THEN <<t>>
    ELSE IF get_date(d, sorted[Len(sorted)]) <= get_date(d, t)
         THEN Append(sorted, t)
         ELSE Append(InsertByDate(d, SubSeq(sorted, 1, Len(sorted) - 1), t),
                     sorted[Len(sorted)])

RECURSIVE SortByDate(_, _)
SortByDate(d, rows) ==
    IF rows = <<>> THEN <<>>
    ELSE InsertByDate(d, SortByDate(d, SubSeq(rows, 1, Len(rows) - 1)),
                      rows[Len(rows)])

\* Transaction.get_initial_account_balance(): the balance of the account
\* before the date of the transaction, the polarity flip applied once
get_initial_account_balance(d, t) ==
    LET earlier == {x \in d.transactions :
                       /\ x.account = t.account
                       /\ \E e \in OwningEntries(d, x) : e.date < get_date(d, t)}
    IN IF flip_balance(t.account) THEN -1 * SumDelta(earlier) ELSE SumDelta(earlier)

\* NextBalance without the polarity flip
NextBalance_NoFlip(account, endbalance, transaction) ==
    endbalance + transaction.balance_delta

\* One turn of the loop of show_account_detail (lines 62-65)
NextBalance(account, endbalance, transaction) ==
    IF flip_balance(account)
    THEN endbalance + -1 * transaction.balance_delta
    ELSE endbalance + transaction.balance_delta

\* The loop of show_account_detail (lines 61-66): the final_balance
\* attached to each transaction
RECURSIVE FinalBalances(_, _, _, _)
FinalBalances(account, transactions, i, endbalance) ==
    IF i > Len(transactions) THEN <<>>
    ELSE LET b == NextBalance(account, endbalance, transactions[i])
         IN <<b>> \o FinalBalances(account, transactions, i + 1, b)

\* What a request answered. startbalance is {} while the name is unbound.
Response(view, status) ==
    [view |-> view, status |-> status, journal_type |-> "", journal_id |-> None,
     submit |-> "", lines |-> <<>>,
     account |-> "", startdate |-> None, stopdate |-> None,
     transactions |-> <<>>, startbalance |-> {}, final_balance |-> <<>>]

\* show_account_detail, the database returning the rows in the order rows
show_account_detail(d, account_slug, startdate, stopdate, rows) ==
    LET transactions == SortByDate(d, rows)
        base == [Response("show_account_detail", "render") EXCEPT
                    !.account = account_slug, !.startdate = startdate,
                    !.stopdate = stopdate, !.transactions = transactions]
    IN IF transactions # <<>>
       THEN LET startbalance == get_initial_account_balance(d, transactions[1])
            IN [base EXCEPT !.startbalance = {startbalance},
                            !.final_balance =
                                FinalBalances(account_slug, transactions, 1, startbalance)]
       ELSE base

\* bank_register, the database returning the rows in the order rows
bank_register(d, account_slug, startdate, stopdate, rows) ==
    IF bank(account_slug)
    THEN [Response("bank_register", "render") EXCEPT
             !.account = account_slug, !.startdate = startdate,
             !.stopdate = stopdate, !.transactions = SortByDate(d, rows)]
    ELSE [Response("bank_register", "404") EXCEPT !.account = account_slug]

\* ------------------------------------------------------- the submissions
Abs(n) == IF n < 0 THEN -n ELSE n

\* What a browser user does with one form of a formset: leave it alone
\* (an extra form stays blank, the line of an initial form is ticked for
\* deletion), or fill in an account and a value
Blank == <<"", 0>>
JournalInputs == {Blank} \cup (Accounts \X Deltas)
BankInputs == {Blank} \cup ({x \in Accounts : ~bank(x)} \X Amounts)

\* The lines of an entry, as the formset lists them
FormsetRows(d, kind, journal_id) ==
    LET found == GetEntry(d, kind, journal_id)
    IN IF found = {} THEN <<>>
       ELSE ById(transaction_set(d, CHOOSE e \in found : TRUE))

\* The forms of a formset: an initial form per line of the entry, then
\* extra forms up to MaxForms forms
FormsetSize(rows) == IF Len(rows) > MaxForms THEN Len(rows) ELSE MaxForms

\* The submitted formset, given what the user did with each form
Formset(rows, inputs) ==
    [i \in 1..Len(inputs) |->
        IF i <= Len(rows)
        THEN IF inputs[i] = Blank
             THEN Form(rows[i].id, rows[i].account, rows[i].balance_delta, TRUE)
             ELSE Form(rows[i].id, inputs[i][1], inputs[i][2], FALSE)
        ELSE IF inputs[i] = Blank THEN EmptyForm
             ELSE Form(None, inputs[i][1], inputs[i][2], FALSE)]

TransferInputs == {<<"", "", 0>>} \cup (Accounts \X Accounts \X Amounts)

TransferFormset(inputs) ==
    [i \in 1..Len(inputs) |-> Transfer(inputs[i][1], inputs[i][2], inputs[i][3])]

Post(submit, date, account, amount, forms) ==
    [submit |-> submit, date |-> date, account |-> account, amount |-> amount,
     forms |-> forms]

\* The dates a form can carry: a date, or none
FormDates == Dates \cup {None}

\* The filled forms of a transfer submission
RECURSIVE Filled(_)
Filled(forms) ==
    IF forms = <<>> THEN <<>>
    ELSE (IF Head(forms) # EmptyTransfer THEN <<Head(forms)>> ELSE <<>>)
         \o Filled(Tail(forms))

\* The primary key sequences stay within the bounds
WithinBounds(d) ==
    /\ d.next_transaction_id <= MaxTid + 1
    /\ d.next_entry_id["GJ"] + d.next_entry_id["CR"] + d.next_entry_id["CD"] - 3
           <= MaxEntries

EmptyDb ==
    [entries |-> {}, transactions |-> {},
     next_entry_id |-> [k \in EntryTypes |-> 1], next_transaction_id |-> 1]

\* No request is writing
Idle == [writes |-> <<>>, pre |-> EmptyDb]

\* ----------------------------------------------------------- the actions
Init ==
    /\ db = EmptyDb
    /\ pending = Idle
    /\ response = Response("", "")

\* No request has been answered since the client read the last answer
NoResponse == Response("", "")

\* A write request run as one step
Atomic(answer, resp) ==
    LET new == ApplyAll(db, answer.writes)
    IN /\ response = NoResponse
       /\ WithinBounds(new)
       /\ db' = new
       /\ pending' = Idle
       /\ response' = resp

\* The views open no database transaction: every save() and delete() of a
\* request is committed on its own, and other requests run in between.
\* A write request starts: the view has read the rows and goes on to write.
Begin(answer, resp) ==
    /\ response = NoResponse
    /\ pending = Idle
    /\ WithinBounds(ApplyAll(db, answer.writes))
    /\ pending' = IF answer.writes = <<>> THEN Idle
                  ELSE [writes |-> answer.writes, pre |-> db]
    /\ UNCHANGED <<db, response>>

\* A write request, run as one step or write by write
Run(stepwise, answer, resp) ==
    IF stepwise THEN Begin(answer, resp) ELSE Atomic(answer, resp)

WriteResponse(view, answer, journal_type, journal_id, POST) ==
    [Response(view, answer.status) EXCEPT
        !.journal_type = journal_type, !.journal_id = journal_id,
        !.submit = POST.submit,
        !.lines = IF view = "add_transfer_entry" /\ answer.status = "redirect"
                  THEN Filled(POST.forms) ELSE <<>>]

\* The journal_id of the URL: none, or the primary key of an entry
JournalIds(d, kind) == {None} \cup {e.id : e \in {x \in d.entries : x.kind = kind}}

\* A POST to add_journal_entry: a submission with a date and a formset, a
\* submission whose date is missing, or a Delete
Request_add_journal_entry(stepwise) ==
    \E journal_id \in JournalIds(db, "GJ") :
        \/ \E date \in Dates :
               \E inputs \in [1..FormsetSize(FormsetRows(db, "GJ", journal_id))
                              -> JournalInputs] :
                   LET POST == Post("Submit", date, "", 0,
                                    Formset(FormsetRows(db, "GJ", journal_id), inputs))
                       answer == add_journal_entry(db, journal_id, POST)
                   IN Run(stepwise, answer, WriteResponse("add_journal_entry", answer,
                                                "GJ", journal_id, POST))
        \/ \E submit \in {"Submit", "Delete"} :
               LET POST == Post(submit, None, "", 0, <<>>)
                   answer == add_journal_entry(db, journal_id, POST)
               IN Run(stepwise, answer, WriteResponse("add_journal_entry", answer,
                                            "GJ", journal_id, POST))

\* A POST to add_bank_entry: a submission with a date, a bank account, an
\* amount and a formset, a submission whose date is missing or whose
\* account is no bank account, or a Delete
Request_add_bank_entry(stepwise) ==
    \E journal_type \in {"CR", "CD"} :
        \E journal_id \in JournalIds(db, journal_type) :
            \/ \E date \in Dates, account \in {x \in Accounts : bank(x)},
                  amount \in 0..(MaxAmount * MaxForms) :
                   \E inputs \in [1..FormsetSize(FormsetRows(db, journal_type, journal_id))
                                  -> BankInputs] :
                       LET POST == Post("Submit", date, account, amount,
                                        Formset(FormsetRows(db, journal_type, journal_id),
                                                inputs))
                           answer == add_bank_entry(db, journal_id, journal_type, POST)
                       IN Run(stepwise, answer, WriteResponse("add_bank_entry", answer,
                                                    journal_type, journal_id, POST))
            \/ \E POST \in {Post("Submit", None, "Checking", 0, <<>>),
                            Post("Submit", 1, "Income", 0, <<>>),
                            Post("Delete", None, "", 0, <<>>)} :
                   LET answer == add_bank_entry(db, journal_id, journal_type, POST)
                   IN Run(stepwise, answer, WriteResponse("add_bank_entry", answer,
                                                journal_type, journal_id, POST))

\* A POST to add_transfer_entry
Request_add_transfer_entry(stepwise) ==
    \E date \in FormDates :
        \E inputs \in [1..MaxForms -> TransferInputs] :
            LET POST == Post("Submit", date, "", 0, TransferFormset(inputs))
                answer == add_transfer_entry(db, POST)
            IN Run(stepwise, answer, WriteResponse("add_transfer_entry", answer,
                                         "GJ", db.next_entry_id["GJ"], POST))

Request_show_account_detail ==
    \E account \in Accounts, startdate \in Dates, stopdate \in Dates :
        /\ response = NoResponse
        /\ startdate <= stopdate
        /\ \E rows \in Orderings(detail_filter(db, account, startdate, stopdate)) :
               response' = show_account_detail(db, account, startdate, stopdate, rows)
        /\ UNCHANGED <<db, pending>>

Request_bank_register ==
    \E account \in Accounts, startdate \in Dates, stopdate \in Dates :
        /\ response = NoResponse
        /\ startdate <= stopdate
        /\ \E rows \in Orderings(register_filter(db, account, startdate, stopdate)) :
               response' = bank_register(db, account, startdate, stopdate, rows)
        /\ UNCHANGED <<db, pending>>

\* The client reads the answer; the views serve one request at a time
ResponseReceived ==
    /\ response # NoResponse
    /\ response' = NoResponse
    /\ UNCHANGED <<db, pending>>

AtomicJournal == Request_add_journal_entry(FALSE)
AtomicBank == Request_add_bank_entry(FALSE)
AtomicTransfer == Request_add_transfer_entry(FALSE)

Next ==
    \/ AtomicJournal
    \/ AtomicBank
    \/ AtomicTransfer
    \/ Request_show_account_detail
    \/ Request_bank_register
    \/ ResponseReceived

Spec == Init /\ [][Next]_vars

\* ------------------------------------------- the writes of a view, one by one
\* The next save() or delete() of the request in flight
Commit ==
    /\ pending.writes # <<>>
    /\ db' = Apply(db, Head(pending.writes))
    /\ pending' = IF Len(pending.writes) = 1 THEN Idle
                  ELSE [pending EXCEPT !.writes = Tail(@)]
    /\ UNCHANGED response

BeginBank == Request_add_bank_entry(TRUE)
BeginTransfer == Request_add_transfer_entry(TRUE)

\* The requests of add_bank_entry and add_transfer_entry, write by write,
\* with the balance views running in between
NextSteps ==
    \/ BeginBank
    \/ BeginTransfer
    \/ Commit
    \/ Request_show_account_detail
    \/ Request_bank_register
    \/ ResponseReceived

SpecSteps == Init /\ [][NextSteps]_vars

\* ------------------------------------------------------------ the claims
\* The Transactions of an entry: its detail lines and its main transaction
EntryTransactions(d, e) == transaction_set(d, e) \cup main_transaction(d, e)

\* C4: a write request is one atomic step for the balance views: whenever
\* show_account_detail or bank_register can run while a request is
\* writing, the rows are those before the request or those after it.
C4_WritesAreAtomic ==
    (response = NoResponse /\ pending.writes # <<>>) =>
        (db = pending.pre \/ db = ApplyAll(db, pending.writes))

\* Which of its three owning-entry references a Transaction has set
OwnerKeys(t) ==
    {k \in EntryTypes : EntryKey(t, k) # None}

\* The bank entries whose main_transaction a Transaction is
MainOf(d, t) ==
    {e \in d.entries : e.kind \in {"CR", "CD"} /\ e.main_transaction = t.id}

\* C1: the balance_delta of the Transactions of every persisted Entry (for
\* a bank entry the main transaction with the detail lines) sum to zero.
C1_EveryEntryBalances ==
    \A e \in db.entries : SumDelta(EntryTransactions(db, e)) = 0

\* A receiving entry that was edited: its first detail line was removed
\* and a later one is left
C1_Witness ==
    \E e \in db.entries :
        /\ e.kind = "CR"
        /\ Cardinality(transaction_set(db, e)) = 1
        /\ \A t \in transaction_set(db, e) : t.id > e.main_transaction + 1

\* C2: the main transaction of every saved BankReceivingEntry and
\* BankSpendingEntry carries the negative of the sum of the balance_delta
\* of the entry's detail lines.
C2_MainIsMinusDetails ==
    \A e \in db.entries :
        e.kind \in {"CR", "CD"} =>
            \A m \in main_transaction(db, e) :
                m.balance_delta = -1 * SumDelta(transaction_set(db, e))

\* A spending entry has been saved beside a receiving entry, each with
\* its main transaction and a detail line
C2_Witness ==
    /\ response.view = "add_bank_entry"
    /\ response.status = "redirect"
    /\ response.submit = "Submit"
    /\ response.journal_type = "CD"
    /\ \A k \in {"CR", "CD"} :
           \E e \in db.entries :
               /\ e.kind = k
               /\ main_transaction(db, e) # {}
               /\ transaction_set(db, e) # {}

\* C3: a submission that validation rejects (the form is rendered again)
\* leaves every persisted row as it was.
C3_RejectionWritesNothing ==
    [][(/\ response'.view \in {"add_journal_entry", "add_bank_entry",
                               "add_transfer_entry"}
        /\ response'.status = "render") => db' = db]_vars

\* A rejected journal submission, with rows persisted before it
C3_Witness ==
    /\ response.view = "add_journal_entry"
    /\ response.status = "render"
    /\ response.journal_id # None
    /\ db.transactions # {}

C8_ExactlyOneOwnerKey ==
    \A t \in db.transactions : Cardinality(OwnerKeys(t)) = 1

\* C8 amended: every persisted detail line has exactly one of
\* journal_entry, bankspend_entry, bankreceive_entry set, naming a
\* persisted entry; the main transaction of a bank entry has none of them
\* set and is the main_transaction of exactly one bank entry; no
\* Transaction is both, and none has more than one reference set.
C8_OneOwnerKeyOrMain ==
    \A t \in db.transactions :
        \/ /\ Cardinality(OwnerKeys(t)) = 1
           /\ MainOf(db, t) = {}
           /\ \A k \in OwnerKeys(t) : GetEntry(db, k, EntryKey(t, k)) # {}
        \/ /\ OwnerKeys(t) = {}
           /\ Cardinality(MainOf(db, t)) = 1

\* A bank entry with its main transaction and a detail line, beside a
\* journal line
C8_Witness ==
    /\ \E t \in db.transactions : OwnerKeys(t) = {} /\ MainOf(db, t) # {}
    /\ \E t \in db.transactions : OwnerKeys(t) = {"CD"}
    /\ \E t \in db.transactions : OwnerKeys(t) = {"GJ"}

\* C9: a Delete of an existing Entry removes the Entry and exactly its
\* Transactions (the main transaction and the detail lines), and changes
\* no other row.
C9_DeleteRemovesExactlyTheEntry ==
    [][(/\ response'.submit = "Delete"
        /\ response'.status = "redirect") =>
           \E e \in GetEntry(db, response'.journal_type, response'.journal_id) :
               /\ db'.entries = db.entries \ {e}
               /\ db'.transactions = db.transactions \ EntryTransactions(db, e)]_vars

\* A bank entry has been deleted and another entry is still persisted
C9_Witness ==
    /\ response.submit = "Delete"
    /\ response.status = "redirect"
    /\ response.journal_type = "CD"
    /\ db.entries # {}
    /\ db.transactions # {}

\* The sign of an amount as the account shows it
Adjusted(account, amount) == IF flip_balance(account) THEN -amount ELSE amount

\* The dates of the entries a Transaction belongs to
EffectiveDates(d, t) == {e.date : e \in OwningEntries(d, t)}

\* The Transactions of an account dated in [startdate, stopdate]
Activity(d, account, startdate, stopdate) ==
    {t \in d.transactions :
        /\ t.account = account
        /\ \E dt \in EffectiveDates(d, t) : startdate <= dt /\ dt <= stopdate}

\* The balance of an account before startdate, as the account shows it
OpeningBalance(d, account, startdate) ==
    Adjusted(account,
             SumDelta({t \in d.transactions :
                          /\ t.account = account
                          /\ \E dt \in EffectiveDates(d, t) : dt < startdate}))

\* The sum of the balance_delta of the first k rows
RECURSIVE PrefixSum(_, _)
PrefixSum(rows, k) ==
    IF k = 0 THEN 0 ELSE rows[k].balance_delta + PrefixSum(rows, k - 1)

\* C6: show_account_detail returns exactly the Transactions of the account
\* whose entry is dated in [startdate, stopdate], each once, in date
\* order, and the final_balance of the k-th is the opening balance plus
\* the polarity-adjusted sum of the first k balance_delta.
C6_RunningBalances ==
    response.view = "show_account_detail" =>
        LET rows == response.transactions
            expected == Activity(db, response.account, response.startdate,
                                 response.stopdate)
        IN /\ {rows[i] : i \in 1..Len(rows)} = expected
           /\ Len(rows) = Cardinality(expected)
           /\ \A i, j \in 1..Len(rows) :
                  i < j => get_date(db, rows[i]) <= get_date(db, rows[j])
           /\ Len(response.final_balance) = Len(rows)
           /\ \A k \in 1..Len(rows) :
                  response.final_balance[k] =
                      OpeningBalance(db, response.account, response.startdate)
                      + Adjusted(response.account, PrefixSum(rows, k))

\* The detail of a credit-normal account with an opening balance and two
\* Transactions in the range
C6_Witness ==
    /\ response.view = "show_account_detail"
    /\ flip_balance(response.account)
    /\ Len(response.transactions) >= 2
    /\ OpeningBalance(db, response.account, response.startdate) # 0

\* C7: the Transactions of show_account_detail and bank_register are in
\* ascending date order, those of one date in ascending primary key order,
\* whatever order the database returned the rows in.
C7_SortedByDateThenKey ==
    response.view \in {"show_account_detail", "bank_register"} =>
        \A i, j \in 1..Len(response.transactions) :
            i < j =>
                LET a == response.transactions[i]
                    b == response.transactions[j]
                IN \/ get_date(db, a) < get_date(db, b)
                   \/ get_date(db, a) = get_date(db, b) /\ a.id < b.id

\* C10: over one committed state, the opening balance reported for
\* [startdate, stopdate] plus the polarity-adjusted balance_delta of its
\* Transactions is the opening balance reported for a range that begins
\* right after stopdate, also when that range holds no Transaction.
\* Stated for a first range that holds a Transaction.
C10_PrefixSumLaw ==
    (response.view = "show_account_detail" /\ response.transactions # <<>>) =>
        \A stop2 \in Dates :
            stop2 >= response.stopdate + 1 =>
                \A rows \in Orderings(detail_filter(db, response.account,
                                                    response.stopdate + 1, stop2)) :
                    LET next == show_account_detail(db, response.account,
                                                    response.stopdate + 1, stop2, rows)
                    IN /\ response.startbalance # {}
                       /\ next.startbalance =
                              {b + Adjusted(response.account,
                                            PrefixSum(response.transactions,
                                                      Len(response.transactions))) :
                                   b \in response.startbalance}

====
